---- MODULE Spec2Model ----
(***************************************************************************)
(* StateSync (src/index.js): a registry of named stores, per-store         *)
(* listener sets and derived stores that are recomputed on every set of a  *)
(* store named in their deps.  Objects live in a heap so that aliasing     *)
(* between the registry and values handed to the caller is visible.  The   *)
(* document that bind writes to is part of the state; listeners are        *)
(* callbacks that record their arguments, render, read a derived store,    *)
(* set a store or throw.                                                   *)
(***************************************************************************)
EXTENDS Integers, Sequences, FiniteSets, TLC

VARIABLES
    stores,         \* stores[name]: reference of the state object, 0 = undefined
    heap,           \* heap[ref]: the object's own enumerable properties
    order,          \* order[ref]: the object's own keys in insertion order
    listeners,      \* listeners[name]: the Set of callbacks, in insertion order
    derivedStates,  \* the entries of derivedStates, in Object.keys order
    handles,        \* names whose store handle the caller holds
    unsubs,         \* <<name, callback>> of the unsubscribe closures the caller holds
    cancelled,      \* closures called since the last subscribe of the same pair
    dom,            \* dom[el][slot]: what the document's elements show
    last            \* record of the last call the caller made

vars == <<stores, heap, order, listeners, derivedStates, handles, unsubs, cancelled, dom, last>>

(***************************************************************************)
(* Bounds and input sets.                                                  *)
(***************************************************************************)
MaxStack == 16      \* nested set/update frames before the stack is full; the
                    \* engine holds thousands, and every cycle of the inputs
                    \* below stops changing values well before this many
                    \* (StackDeepEnough)
MaxPath == 3        \* pieces a path string is written from
MaxRenders == 3     \* render closures bind calls add to one store

NameSeq == <<"A", "B", "D">>
Names == {NameSeq[i] : i \in 1..Len(NameSeq)}
Vals == {0, 1}
Callbacks == {"c1", "c2"}

\* A snapshot maps some of the keys a, b, c to Vals; {} is the empty one.
Empty == [k \in {} |-> 0]

\* The keys of an object literal in the order the caller wrote them:
\* {a: 1, c: 1}, {name: 'Guest', preferences: {...}}.
LiteralOrder == <<"a", "b", "c", "name", "preferences">>
Written(o) == SelectSeq(LiteralOrder, LAMBDA k : k \in DOMAIN o)

\* What the caller passes.  Stores are created under CreateNames and derived
\* under DeriveNames ("B" can be either); DeriveArgs are the <<deps, computeFn>>
\* pairs, enough for a chain (A -> B -> D), a diamond (A -> B, A -> D, B -> D),
\* a two-spec cycle (B <-> D) and self-cycles.
CreateNames == {"A", "B"}
DeriveNames == {"B", "D"}
InitStates == {[a |-> 0], [a |-> 1, c |-> 1]}
ObjUpdaters == {[kind |-> "obj", obj |-> m, keys |-> Written(m)] :
                   m \in {[a |-> 0], [a |-> 1], [c |-> 1]}}
FnUpdaters == {[kind |-> "fn", fn |-> f] : f \in {"dropC"}}
Updaters == ObjUpdaters \cup FnUpdaters
DeriveArgs == {<<<<"A">>, "pair">>, <<<<"A">>, "copy">>, <<<<"B">>, "pair">>,
               <<<<"A", "B">>, "pair">>, <<<<"D">>, "copy">>}
\* The smaller sets of the subscription scenario: one plain store "A" and one
\* derived store "D" computed from it.
PlainNames == {"A"}
PlainDeriveArgs == {<<<<"A">>, "pair">>, <<<<"A">>, "copy">>}
\* the <<store, callback>> pairs of the caller's subscribe calls
Subscriptions == {<<"A", "c1">>, <<"A", "c2">>, <<"D", "c1">>}

\* The document: two elements; "#e1" selects the first, ".all" both, and an
\* element passed instead of a selector string is its own one-element list
\* (lines 54-56).
Elements == {"e1", "e2"}
Select(selector) ==
    IF selector = "#e1" THEN <<"e1">>
    ELSE IF selector = ".all" THEN <<"e1", "e2">>
    ELSE <<selector>>
\* createStore('A', {c: 1}) besides the InitStates: a later set({a: ...})
\* puts a after c
BindStates == InitStates \cup {[c |-> 1]}
\* what an element shows: its text, its title attribute, its value property
Slots == {"textContent", "@title", ".value"}
\* The render closures of the caller's bind calls, one per call and element:
\*   r1:       A.bind("#e1", {transform: label})
\*   r2a, r2b: A.bind(".all", {transform: label, attr: "title"})
\*   r3:       A.bind(e2, {prop: "value"})
\*   r4:       A.bind("#e1", {transform: flag})
NoOptions == [transform |-> "", attr |-> "", prop |-> ""]
RenderTable ==
    [r1  |-> [el |-> "e1", options |-> [NoOptions EXCEPT !.transform = "label"]],
     r2a |-> [el |-> "e1", options |-> [NoOptions EXCEPT !.transform = "label", !.attr = "title"]],
     r2b |-> [el |-> "e2", options |-> [NoOptions EXCEPT !.transform = "label", !.attr = "title"]],
     r3  |-> [el |-> "e2", options |-> [NoOptions EXCEPT !.prop = "value"]],
     r4  |-> [el |-> "e1", options |-> [NoOptions EXCEPT !.transform = "flag"]]]
Renders == DOMAIN RenderTable
Binds == {<<"A", "#e1", RenderTable["r1"].options>>,
          <<"A", ".all", RenderTable["r2a"].options>>,
          <<"A", "e2", RenderTable["r3"].options>>,
          <<"A", "#e1", RenderTable["r4"].options>>}
\* Nested values (README lines 27-37).  A value is tagged with its type; an
\* object's own properties are o.
Undefined == [t |-> "undefined"]
Null == [t |-> "null"]
Str(x) == [t |-> "string", s |-> x]
Obj(props) == [t |-> "object", o |-> props]
\* createStore('A', {name: 'Guest', ...}), with preferences an object, null or
\* not there
PathStates == {[name |-> Str("Guest"), preferences |-> Obj([theme |-> Str("dark")])],
               [name |-> Str("Guest"), preferences |-> Null],
               [name |-> Str("Guest")]}
\* A.set({preferences: {theme: 'light'}}), A.set({preferences: null})
PathUpdaters == {[kind |-> "obj", obj |-> [preferences |-> Obj([theme |-> Str("light")])],
                  keys |-> <<"preferences">>],
                 [kind |-> "obj", obj |-> [preferences |-> Null],
                  keys |-> <<"preferences">>]}
\* A path string is written as the sequence of its pieces, each a "." or a
\* run of other characters; <<>> is the empty string.  None of the key names
\* is a property of Object.prototype or String.prototype.
Chunks == {"preferences", "theme", "name", "."}
Paths == UNION {[1..n -> Chunks] : n \in 0..MaxPath}
\* Callbacks that act on the registry when they are notified:
\*   reader: () => seen.push(D.get())
\*   bump:   (next) => { if (next.a === 0) A.set({a: 1}) }
\*   boom:   () => { throw new Error() }
Actors == {"reader", "bump", "boom"}
\* The listening scenario: store "A", derived "B" and "D", callbacks that
\* record, read "D" or throw.
ListenDeriveArgs == {<<"B", <<"A">>, "check">>, <<"B", <<"A">>, "copy">>,
                     <<"D", <<"A">>, "copy">>, <<"D", <<"B">>, "copy">>}
ListenSubscriptions == {<<"A", "c1">>, <<"A", "reader">>, <<"A", "boom">>}

Range(s) == {s[i] : i \in 1..Len(s)}

(***************************************************************************)
(* Object helpers.                                                         *)
(***************************************************************************)
\* A set that replaces the state by the partial object.
MergeReplace(p, u) == u

\* { ...p, ...u }
Merge(p, u) == [k \in DOMAIN p \cup DOMAIN u |-> IF k \in DOMAIN u THEN u[k] ELSE p[k]]

\* { ...p, ...u }: the keys of p keep their places, the new keys of u follow
\* in u's order
MergeKeys(pk, uk) == pk \o SelectSeq(uk, LAMBDA k : k \notin Range(pk))

\* { ...o }: a new object with the same own properties
Copy(o) == [k \in DOMAIN o |-> o[k]]

\* o.k ?? 0
PropOr0(o, k) == IF k \in DOMAIN o THEN o[k] ELSE 0

\* Function updaters the caller passes to set.
\*   dropC: ({c, ...rest}) => rest
ApplyFn(f, prevState) ==
    IF f = "dropC" THEN [k \in DOMAIN prevState \ {"c"} |-> prevState[k]]
    ELSE prevState

\* the keys of rest, in the order prevState had them
ApplyFnKeys(f, prevKeys) ==
    IF f = "dropC" THEN SelectSeq(prevKeys, LAMBDA k : k # "c")
    ELSE prevKeys

\* Compute functions the caller passes to derive; an input is
\* [defined |-> FALSE] for a dep whose store is undefined.  The result comes
\* with its keys in insertion order.
\*   pair: (...s) => ({a: s[0].a ?? 0, b: s[s.length - 1].a ?? 0})
\*   copy: (x) => ({...x})
\*   check: (x) => { if (x.c) throw new Error(); return {...x} }
Compute(f, inputs) ==
    IF f = "check"
    THEN IF ~inputs[1].defined
         THEN [err |-> "TypeError", val |-> Empty, keys |-> <<>>]
         ELSE IF PropOr0(inputs[1].val, "c") # 0
         THEN [err |-> "Error", val |-> Empty, keys |-> <<>>]
         ELSE [err |-> "ok", val |-> Copy(inputs[1].val), keys |-> inputs[1].keys]
    ELSE IF f = "pair"
    THEN IF ~inputs[1].defined \/ ~inputs[Len(inputs)].defined
         THEN [err |-> "TypeError", val |-> Empty, keys |-> <<>>]
         ELSE [err |-> "ok",
               val |-> [a |-> PropOr0(inputs[1].val, "a"),
                        b |-> PropOr0(inputs[Len(inputs)].val, "a")],
               keys |-> <<"a", "b">>]
    ELSE [err |-> "ok",
          val |-> IF inputs[1].defined THEN Copy(inputs[1].val) ELSE Empty,
          keys |-> IF inputs[1].defined THEN inputs[1].keys ELSE <<>>]

(***************************************************************************)
(* The registry seen from inside one call.  A world w carries the          *)
(* registry (stores, heap, listeners, derivedStates), what the call did    *)
(* (calls, log, recomputed) and err, the exception in flight ("ok": none). *)
(***************************************************************************)
RECURSIVE StoreSet(_, _, _, _, _), Update(_, _, _, _), ScanDerived(_, _, _, _, _, _)
RECURSIVE ForEach(_, _, _, _, _, _, _)

SpecNames(ds) == [i \in 1..Len(ds) |-> ds[i].name]

SpecOf(ds, key) == ds[CHOOSE i \in 1..Len(ds) : ds[i].name = key]

\* A set that ignores options.silent.
NotifiesAlways(silent) == TRUE

\* line 32: if (!options.silent)
Notifies(silent) == ~silent

\* A notification with its arguments swapped.
ListenerSwapped(id, name, cb, nextState, prevState) ==
    [call |-> id, store |-> name, cb |-> cb, next |-> prevState, prev |-> nextState]

\* line 33: listener(nextState, prevState), for a callback that records its arguments
Listener(id, name, cb, nextState, prevState) ==
    [call |-> id, store |-> name, cb |-> cb, next |-> nextState, prev |-> prevState]

\* Transform functions the caller passes to bind.
\*   label: (s) => 'a=' + (s.a ?? 0)
\*   flag:  (s) => s.c ? 'on' : 'off'
Transform(f, state) ==
    IF f = "label" THEN "a=" \o ToString(PropOr0(state, "a"))
    ELSE IF PropOr0(state, "c") # 0 THEN "on" ELSE "off"

RECURSIVE Members(_, _, _)
Members(o, keys, i) ==
    IF i > Len(keys) THEN ""
    ELSE "\n  \"" \o keys[i] \o "\": " \o ToString(o[keys[i]])
             \o (IF i < Len(keys) THEN "," ELSE "\n") \o Members(o, keys, i + 1)

\* line 62: JSON.stringify(stores[name], null, 2); keys lists the own keys of
\* o in insertion order, the order JSON.stringify writes them in
Stringify(o, keys) == "{" \o Members(o, keys, 1) \o "}"

\* lines 64-66: where the value goes
Slot(options) ==
    IF options.attr # "" THEN "@" \o options.attr
    ELSE IF options.prop # "" THEN "." \o options.prop
    ELSE "textContent"

\* lines 60-62: the value shown, computed from the store's current state
Value(options, state, keys) ==
    IF options.transform # "" THEN Transform(options.transform, state)
    ELSE Stringify(state, keys)

\* A render that writes nothing.
RenderNothing(w, name, cb) == w

\* lines 59-67: render() of the closure cb bound to store name
Render(w, name, cb) ==
    [w EXCEPT !.dom[RenderTable[cb].el][Slot(RenderTable[cb].options)] =
                  Value(RenderTable[cb].options, w.heap[w.stores[name]],
                        w.order[w.stores[name]])]

\* A call that catches what a callback or compute throws.
Swallow(w, e) == w

\* A set that puts the registry back as it was when something throws.
ThrowAndRestore(w, e) ==
    [w EXCEPT !.err = e, !.stores = stores, !.heap = heap, !.order = order]

\* lines 33 and 80-84: nothing catches an exception; it leaves the listener
\* loop, update, the scan and set
Throw(w, e) == [w EXCEPT !.err = e]

\* a log entry with what the callback read
Saw(entry, v) == [k \in DOMAIN entry \cup {"saw"} |-> IF k = "saw" THEN v ELSE entry[k]]

\* line 33: listener(nextState, prevState); every invocation is logged, then
\* the callback's body runs
Invoke(w, id, name, cb, nextRef, prevState, fuel) ==
    LET entry == Listener(id, name, cb, w.heap[nextRef], prevState)
        w1 == [w EXCEPT !.log = Append(@, entry)]
    IN  IF cb \in Renders THEN Render(w1, name, cb)
        ELSE IF cb = "reader"
        THEN IF w.stores["D"] = 0 THEN Throw(w1, "TypeError")
             ELSE [w EXCEPT !.log = Append(@, Saw(entry, Copy(w.heap[w.stores["D"]])))]
        ELSE IF cb = "bump"
        THEN IF PropOr0(w.heap[nextRef], "a") = 0
             THEN StoreSet(w1, "A", [kind |-> "obj", obj |-> [a |-> 1], keys |-> <<"a">>],
                      FALSE, fuel)
             ELSE w1
        ELSE IF cb = "boom" THEN Throw(w1, "Error")
        ELSE w1

\* line 33: listeners[name].forEach(...), from the i-th listener on
ForEach(w, id, name, nextRef, prevState, i, fuel) ==
    IF w.err # "ok" \/ i > Len(w.listeners[name]) THEN w
    ELSE ForEach(Invoke(w, id, name, w.listeners[name][i], nextRef, prevState, fuel),
                 id, name, nextRef, prevState, i + 1, fuel)

\* A set that recomputes the derived specs before it notifies.
NotifyAfterScan(w, id, name, nextRef, prevState, fuel) ==
    ForEach(ScanDerived(w, id, name, SpecNames(w.derivedStates), 1, fuel),
            id, name, nextRef, prevState, 1, fuel)

NotifyAll(w, id, name, nextRef, prevState, fuel) ==
    ForEach(w, id, name, nextRef, prevState, 1, fuel)

\* A scan that looks at the first dep only.
IncludesFirst(deps, name) == deps[1] = name

\* line 38: derivedStates[key].deps.includes(name)
Includes(deps, name) == name \in Range(deps)

\* lines 37-41: the scan over a snapshot of Object.keys(derivedStates), from index i
ScanDerived(w, id, name, keys, i, fuel) ==
    IF w.err # "ok" \/ i > Len(keys) THEN w
    ELSE LET w1 == IF Includes(SpecOf(w.derivedStates, keys[i]).deps, name)
                   THEN Update(w, id, keys[i], fuel)
                   ELSE w
         IN  ScanDerived(w1, id, name, keys, i + 1, fuel)

\* A set that leaves the derived specs alone when the state did not change.
StoreSetIfChanged(w, name, updater, silent, fuel) ==
    IF fuel = 0 THEN [w EXCEPT !.err = "RangeError"]
    ELSE LET prevState == Copy(w.heap[w.stores[name]])
             nextState == IF updater.kind = "fn"
                          THEN ApplyFn(updater.fn, prevState)
                          ELSE Merge(prevState, updater.obj)
             ref == Len(w.heap) + 1
             id == Len(w.calls) + 1
             nextKeys == IF updater.kind = "fn"
                         THEN ApplyFnKeys(updater.fn, w.order[w.stores[name]])
                         ELSE MergeKeys(w.order[w.stores[name]], updater.keys)
             w1 == [w EXCEPT !.heap = Append(@, nextState),
                             !.order = Append(@, nextKeys),
                             !.stores[name] = ref,
                             !.calls = Append(@, [store |-> name, silent |-> silent,
                                                  prev |-> prevState, next |-> nextState,
                                                  listeners |-> w.listeners[name]])]
             w2 == IF Notifies(silent)
                   THEN NotifyAll(w1, id, name, ref, prevState, fuel - 1)
                   ELSE w1
         IN  IF nextState = prevState THEN w2
             ELSE ScanDerived(w2, id, name, SpecNames(w2.derivedStates), 1, fuel - 1)

\* lines 23-44: set(updater, options) of store name; fuel is the stack left
StoreSet(w, name, updater, silent, fuel) ==
    IF fuel = 0 THEN [w EXCEPT !.err = "RangeError"]
    ELSE LET prevState == Copy(w.heap[w.stores[name]])
             nextState == IF updater.kind = "fn"
                          THEN ApplyFn(updater.fn, prevState)
                          ELSE Merge(prevState, updater.obj)
             ref == Len(w.heap) + 1
             id == Len(w.calls) + 1
             nextKeys == IF updater.kind = "fn"
                         THEN ApplyFnKeys(updater.fn, w.order[w.stores[name]])
                         ELSE MergeKeys(w.order[w.stores[name]], updater.keys)
             w1 == [w EXCEPT !.heap = Append(@, nextState),
                             !.order = Append(@, nextKeys),
                             !.stores[name] = ref,
                             !.calls = Append(@, [store |-> name, silent |-> silent,
                                                  prev |-> prevState, next |-> nextState,
                                                  listeners |-> w.listeners[name]])]
             w2 == IF Notifies(silent)
                   THEN NotifyAll(w1, id, name, ref, prevState, fuel - 1)
                   ELSE w1
         IN  ScanDerived(w2, id, name, SpecNames(w2.derivedStates), 1, fuel - 1)

\* line 81: deps.map(dep => stores[dep])
Inputs(w, deps) ==
    [i \in 1..Len(deps) |->
        IF w.stores[deps[i]] = 0
        THEN [defined |-> FALSE, val |-> Empty, keys |-> <<>>]
        ELSE [defined |-> TRUE, val |-> w.heap[w.stores[deps[i]]],
              keys |-> w.order[w.stores[deps[i]]]]]

\* lines 80-84: update() of the spec registered under key, triggered by call id
Update(w, id, key, fuel) ==
    IF fuel = 0 THEN [w EXCEPT !.err = "RangeError"]
    ELSE LET spec == SpecOf(w.derivedStates, key)
             res == Compute(spec.fn, Inputs(w, spec.deps))
             w1 == [w EXCEPT !.recomputed = Append(@, [spec |-> key, by |-> id])]
         IN  IF res.err # "ok" THEN Throw(w1, res.err)
             ELSE IF spec.store # "handle" THEN [w1 EXCEPT !.err = "TypeError"]
             ELSE StoreSet(w1, key, [kind |-> "obj", obj |-> res.val, keys |-> res.keys],
                           FALSE, fuel - 1)

\* The world at the start of a call.
World ==
    [stores |-> stores, heap |-> heap, order |-> order, listeners |-> listeners,
     derivedStates |-> derivedStates, dom |-> dom,
     calls |-> <<>>, log |-> <<>>, recomputed |-> <<>>, err |-> "ok"]

(***************************************************************************)
(* Heap bookkeeping: objects no one can reach are dropped and the rest     *)
(* renumbered in root order (the stores in NameSeq order, then the value   *)
(* the caller holds).                                                      *)
(***************************************************************************)
Roots(st, r) == SelectSeq([i \in 1..Len(NameSeq) |-> st[NameSeq[i]]] \o <<r>>,
                          LAMBDA x : x # 0)

FirstAt(s, x) == CHOOSE i \in 1..Len(s) : s[i] = x /\ \A j \in 1..(i - 1) : s[j] # x

\* the distinct roots, in order of first occurrence
Live(st, r) ==
    LET s == Roots(st, r)
        keep == {i \in 1..Len(s) : FirstAt(s, s[i]) = i}
        nth(n) == CHOOSE i \in keep : Cardinality({j \in keep : j < i}) = n - 1
    IN  [n \in 1..Cardinality(keep) |-> s[nth(n)]]

Renumber(st, r, x) == IF x = 0 THEN 0 ELSE FirstAt(Live(st, r), x)

NormStores(st, r) == [n \in Names |-> Renumber(st, r, st[n])]

NormHeap(st, hp, r) == [i \in 1..Len(Live(st, r)) |-> hp[Live(st, r)[i]]]

NoArg == [kind |-> "none"]
NoRet == [kind |-> "none", ref |-> 0, from |-> "none"]

Call(op, name, arg, silent, w, ret) ==
    [op |-> op, name |-> name, arg |-> arg, silent |-> silent, outcome |-> w.err,
     ret |-> ret, calls |-> w.calls, log |-> w.log, recomputed |-> w.recomputed]

(***************************************************************************)
(* The caller's operations.                                                *)
(***************************************************************************)
Init ==
    /\ stores = [n \in Names |-> 0]
    /\ heap = <<>>
    /\ order = <<>>
    /\ listeners = [n \in Names |-> <<>>]
    /\ derivedStates = <<>>
    /\ handles = {}
    /\ unsubs = {}
    /\ cancelled = {}
    /\ dom = [el \in Elements |-> [slot \in Slots |-> ""]]
    /\ last = [op |-> "init", name |-> "", arg |-> NoArg, silent |-> FALSE,
               outcome |-> "ok", ret |-> NoRet, calls |-> <<>>, log |-> <<>>,
               recomputed |-> <<>>]

\* The registry and the caller's record after a call that ended in world w
\* and returned ret (NoRet when it threw).
Commit(op, name, arg, silent, w, ret) ==
    LET r == IF w.err = "ok" THEN ret ELSE NoRet
    IN  /\ stores' = NormStores(w.stores, r.ref)
        /\ heap' = NormHeap(w.stores, w.heap, r.ref)
        /\ order' = NormHeap(w.stores, w.order, r.ref)
        /\ listeners' = w.listeners
        /\ derivedStates' = w.derivedStates
        /\ dom' = w.dom
        /\ last' = Call(op, name, arg, silent, w,
                        [r EXCEPT !.ref = Renumber(w.stores, r.ref, r.ref)])

\* line 13: if (stores[name]) return stores[name];
Existing(w, name) == [kind |-> "object", ref |-> w.stores[name], from |-> "createStore"]

\* lines 15-16: the store and its listener Set are created
Register(w, name, initialState) ==
    [w EXCEPT !.heap = Append(@, Copy(initialState)),
              !.order = Append(@, Written(initialState)),
              !.stores[name] = Len(w.heap) + 1,
              !.listeners[name] = <<>>]

\* lines 12-18: createStore(name, initialState)
CreateStore(name, initialState) ==
    /\ IF stores[name] # 0
       THEN /\ Commit("createStore", name, [kind |-> "init", obj |-> initialState],
                      FALSE, World, Existing(World, name))
            /\ UNCHANGED handles
       ELSE /\ Commit("createStore", name, [kind |-> "init", obj |-> initialState],
                      FALSE, Register(World, name, initialState),
                      [kind |-> "handle", ref |-> 0, from |-> "createStore"])
            /\ handles' = handles \cup {name}
    /\ UNCHANGED <<unsubs, cancelled>>

\* lines 23-44: handle.set(updater, {silent})
Set(name, updater, silent, fuel) ==
    /\ name \in handles
    /\ LET w == StoreSet(World, name, updater, silent, fuel)
       IN  Commit("set", name, updater, silent, w,
                  [kind |-> "object", ref |-> Len(heap) + 1, from |-> "set"])
    /\ UNCHANGED <<handles, unsubs, cancelled>>

\* line 20: get() with no path returns { ...stores[name] }
GetCopy(w, name) ==
    [w EXCEPT !.heap = Append(@, Copy(w.heap[w.stores[name]])),
              !.order = Append(@, w.order[w.stores[name]])]

\* A get that returns stores[name] itself.
GetRefAlias(w, name) == w.stores[name]

\* the object get() returns: the copy just made
GetRef(w, name) == Len(w.heap) + 1

Get(name) ==
    /\ name \in handles
    /\ Commit("get", name, NoArg, FALSE, GetCopy(World, name),
              [kind |-> "object", ref |-> GetRef(World, name), from |-> "get"])
    /\ UNCHANGED <<handles, unsubs, cancelled>>

\* path.split('.'): the pieces between the dots, from the i-th piece on; cur
\* is the key being read
RECURSIVE SplitFrom(_, _, _, _)
SplitFrom(path, i, cur, acc) ==
    IF i > Len(path) THEN Append(acc, cur)
    ELSE IF path[i] = "." THEN SplitFrom(path, i + 1, "", Append(acc, cur))
    ELSE SplitFrom(path, i + 1, cur \o path[i], acc)

Split(path) == SplitFrom(path, 1, "", <<>>)

\* An index without the optional chaining: o[key].
IndexStrict(o, key) ==
    IF o.t \in {"undefined", "null"} THEN [err |-> "TypeError", val |-> Undefined]
    ELSE IF o.t = "object" /\ key \in DOMAIN o.o THEN [err |-> "ok", val |-> o.o[key]]
    ELSE [err |-> "ok", val |-> Undefined]

\* line 94: o?.[key]
Index(o, key) ==
    IF o.t \in {"undefined", "null"} THEN [err |-> "ok", val |-> Undefined]
    ELSE IF o.t = "object" /\ key \in DOMAIN o.o THEN [err |-> "ok", val |-> o.o[key]]
    ELSE [err |-> "ok", val |-> Undefined]

\* line 94: keys.reduce((o, key) => o?.[key], obj), from the i-th key on
RECURSIVE Reduce(_, _, _)
Reduce(acc, keys, i) ==
    IF acc.err # "ok" \/ i > Len(keys) THEN acc
    ELSE Reduce(Index(acc.val, keys[i]), keys, i + 1)

\* lines 93-95
GetNestedValue(obj, path) == Reduce([err |-> "ok", val |-> Obj(obj)], Split(path), 1)

\* line 20: get(path); the empty string is falsy and gets the copy
GetPath(name, path) ==
    /\ name \in handles
    /\ IF Len(path) = 0
       THEN Commit("getPath", name, [kind |-> "path", path |-> path], FALSE,
                   GetCopy(World, name),
                   [kind |-> "object", ref |-> GetRef(World, name), from |-> "get"])
       ELSE LET res == GetNestedValue(heap[stores[name]], path)
            IN  Commit("getPath", name, [kind |-> "path", path |-> path], FALSE,
                       [World EXCEPT !.err = res.err],
                       [kind |-> "value", ref |-> 0, from |-> "get", val |-> res.val])
    /\ UNCHANGED <<handles, unsubs, cancelled>>

\* The caller assigns (v.k = x) or deletes (delete v.k) a top-level key of the
\* object v that its last call returned.
Assign(o, k, x) == [j \in DOMAIN o \cup {k} |-> IF j = k THEN x ELSE o[j]]

Delete(o, k) == [j \in DOMAIN o \ {k} |-> o[j]]

\* v.k = x puts a new key last and leaves an old key in its place; delete v.k
\* takes the key out
AssignKeys(ks, k) == IF k \in Range(ks) THEN ks ELSE Append(ks, k)
DeleteKeys(ks, k) == SelectSeq(ks, LAMBDA j : j # k)

Mutate(arg) ==
    /\ last.ret.kind = "object"
    /\ heap' = [heap EXCEPT ![last.ret.ref] =
                    IF arg.kind = "assign" THEN Assign(@, arg.key, arg.val)
                    ELSE Delete(@, arg.key)]
    /\ order' = [order EXCEPT ![last.ret.ref] =
                     IF arg.kind = "assign" THEN AssignKeys(@, arg.key)
                     ELSE DeleteKeys(@, arg.key)]
    /\ heap' # heap
    /\ last' = [last EXCEPT !.op = "mutate", !.arg = arg, !.silent = FALSE,
                            !.calls = <<>>, !.log = <<>>, !.recomputed = <<>>]
    /\ UNCHANGED <<stores, listeners, derivedStates, handles, unsubs, cancelled, dom>>

\* v.a = 1, v.c = 1, delete v.c
Mutations ==
    {[kind |-> "assign", key |-> "a", val |-> 1],
     [kind |-> "assign", key |-> "c", val |-> 1],
     [kind |-> "delete", key |-> "c", val |-> 0]}

\* A listener list that keeps duplicates.
SetAddAgain(ls, cb) == Append(ls, cb)

\* line 48: listeners[name].add(callback)
SetAdd(ls, cb) == IF cb \in Range(ls) THEN ls ELSE Append(ls, cb)

\* An unsubscribe closure that removes nothing.
SetDeleteNothing(ls, cb) == ls

\* line 49: listeners[name].delete(callback)
SetDelete(ls, cb) == SelectSeq(ls, LAMBDA c : c # cb)

\* lines 47-50: handle.subscribe(callback); the record of the call keeps
\* the members the listener set had when the closure was made
Subscribe(name, cb) ==
    /\ name \in handles
    /\ listeners' = [listeners EXCEPT ![name] = SetAdd(@, cb)]
    /\ unsubs' = unsubs \cup {<<name, cb>>}
    /\ cancelled' = cancelled \ {<<name, cb>>}
    /\ last' = Call("subscribe", name, [kind |-> "cb", cb |-> cb], FALSE, World,
                    [kind |-> "unsubscribe", ref |-> 0, from |-> "subscribe",
                     before |-> Range(listeners[name])])
    /\ UNCHANGED <<stores, heap, order, derivedStates, handles, dom>>

\* line 49: what Set.prototype.delete returns: true when the callback was a
\* member, false when it was not
SetHas(ls, cb) == cb \in Range(ls)

\* line 49: the closure returned by subscribe is called; it returns what
\* listeners[name].delete(callback) returns
Unsubscribe(name, cb) ==
    /\ <<name, cb>> \in unsubs
    /\ listeners' = [listeners EXCEPT ![name] = SetDelete(@, cb)]
    /\ cancelled' = cancelled \cup {<<name, cb>>}
    /\ last' = Call("unsubscribe", name, [kind |-> "cb", cb |-> cb], FALSE, World,
                    [kind |-> "boolean", ref |-> 0, from |-> "unsubscribe",
                     val |-> SetHas(listeners[name], cb)])
    /\ UNCHANGED <<stores, heap, order, derivedStates, handles, unsubs, dom>>

\* line 86: derivedStates[name] = { deps, update }; a new key goes last in
\* Object.keys order, an existing key keeps its place
PutSpec(ds, spec) ==
    IF spec.name \in Range(SpecNames(ds))
    THEN [i \in 1..Len(ds) |-> IF ds[i].name = spec.name THEN spec ELSE ds[i]]
    ELSE Append(ds, spec)

\* line 78: const store = createStore(name); "handle" when the store is new,
\* "object" when createStore returned the existing state object
DeriveStore(w, name) == IF w.stores[name] # 0 THEN "object" ELSE "handle"

\* A derive that leaves the first computation to the next set of a dep.
NoInitialUpdate(w, name, fuel) == w

\* line 87: update(); the initial computation
InitialUpdate(w, name, fuel) == Update(w, 0, name, fuel)

\* lines 77-90: derive(name, deps, computeFn)
Derive(name, deps, fn, fuel) ==
    /\ LET kind == DeriveStore(World, name)
           w0 == IF kind = "handle" THEN Register(World, name, Empty) ELSE World
           w1 == [w0 EXCEPT !.derivedStates =
                     PutSpec(@, [name |-> name, deps |-> deps, fn |-> fn, store |-> kind])]
           w2 == InitialUpdate(w1, name, fuel)
       IN  /\ Commit("derive", name, [kind |-> "derive", deps |-> deps, fn |-> fn],
                     FALSE, w2,
                     [kind |-> kind, from |-> "derive",
                      ref |-> IF kind = "object" THEN w1.stores[name] ELSE 0])
           /\ handles' = IF w2.err = "ok" /\ kind = "handle"
                         THEN handles \cup {name} ELSE handles
    /\ UNCHANGED <<unsubs, cancelled>>

\* the render closure a bind call creates for element el
RenderId(el, options) ==
    CHOOSE r \in Renders : RenderTable[r] = [el |-> el, options |-> options]

\* line 70: listeners[name].add(render); render is a closure made by this
\* call (line 59), never a member yet, so the Set always grows.  The list
\* holds the closure's table entry once per closure.
AddClosure(ls, render) == Append(ls, render)

\* lines 58-71: elements.forEach(el => { ...; render(); listeners[name].add(render) })
RECURSIVE BindEach(_, _, _, _, _)
BindEach(w, name, elements, options, i) ==
    IF i > Len(elements) THEN w
    ELSE LET render == RenderId(elements[i], options)
             w1 == Render(w, name, render)
         IN  BindEach([w1 EXCEPT !.listeners[name] = AddClosure(@, render)],
                      name, elements, options, i + 1)

\* the render closures among the members of a listener set
Closures(ls) == SelectSeq(ls, LAMBDA cb : cb \in Renders)

\* lines 53-72: handle.bind(selector, options); every call creates new
\* closures, so binding the same target again renders again and adds
\* another member.  The guard keeps the closures of a store within MaxRenders.
Bind(name, selector, options) ==
    /\ name \in handles
    /\ Len(Closures(listeners[name])) + Len(Select(selector)) <= MaxRenders
    /\ Commit("bind", name, [kind |-> "bind", selector |-> selector, options |-> options],
              FALSE, BindEach(World, name, Select(selector), options, 1), NoRet)
    /\ UNCHANGED <<handles, unsubs, cancelled>>

(***************************************************************************)
(* Spec: one plain store and one derived store, with subscriptions and the *)
(* caller changing the values it was handed.                               *)
(***************************************************************************)
Next ==
    \/ \E name \in PlainNames, initialState \in InitStates :
          CreateStore(name, initialState)
    \/ \E name \in Names, updater \in Updaters, silent \in BOOLEAN :
          Set(name, updater, silent, MaxStack)
    \/ \E name \in Names : Get(name)
    \/ \E arg \in Mutations : Mutate(arg)
    \/ \E p \in Subscriptions : Subscribe(p[1], p[2])
    \/ \E p \in Subscriptions : Unsubscribe(p[1], p[2])
    \/ \E args \in PlainDeriveArgs :
          stores["D"] = 0 /\ Derive("D", args[1], args[2], MaxStack)

Spec == Init /\ [][Next]_vars

(***************************************************************************)
(* SpecGraph: derived graphs over three names, each derived name           *)
(* registered once (README: "name - Unique name for the derived store").   *)
(***************************************************************************)
NextGraph ==
    \/ \E name \in CreateNames, initialState \in InitStates :
          CreateStore(name, initialState)
    \/ \E name \in Names, updater \in Updaters : Set(name, updater, FALSE, MaxStack)
    \/ \E name \in Names : Get(name)
    \/ \E name \in DeriveNames, args \in DeriveArgs :
          stores[name] = 0 /\ Derive(name, args[1], args[2], MaxStack)

SpecGraph == Init /\ [][NextGraph]_vars

(***************************************************************************)
(* SpecBind: one store bound to the document's elements.                   *)
(***************************************************************************)
NextBind ==
    \/ \E name \in PlainNames, initialState \in BindStates :
          CreateStore(name, initialState)
    \/ \E name \in PlainNames, updater \in Updaters, silent \in BOOLEAN :
          Set(name, updater, silent, MaxStack)
    \/ \E b \in Binds : Bind(b[1], b[2], b[3])

SpecBind == Init /\ [][NextBind]_vars

(***************************************************************************)
(* SpecPath: one store with nested values, read by path.                   *)
(***************************************************************************)
NextPath ==
    \/ \E name \in PlainNames, initialState \in PathStates :
          CreateStore(name, initialState)
    \/ \E name \in PlainNames, updater \in PathUpdaters :
          Set(name, updater, FALSE, MaxStack)
    \/ \E name \in PlainNames, path \in Paths : GetPath(name, path)

SpecPath == Init /\ [][NextPath]_vars

(***************************************************************************)
(* SpecRederive: derive under a name that may already be registered, by    *)
(* createStore or by an earlier derive.                                    *)
(***************************************************************************)
RederiveNames == {"A", "D"}

NextRederive ==
    \/ \E name \in RederiveNames, initialState \in InitStates :
          CreateStore(name, initialState)
    \/ \E name \in RederiveNames, updater \in Updaters :
          Set(name, updater, FALSE, MaxStack)
    \/ \E args \in PlainDeriveArgs : Derive("D", args[1], args[2], MaxStack)

SpecRederive == Init /\ [][NextRederive]_vars

(***************************************************************************)
(* SpecListen: a store with two derived stores and listeners that record,  *)
(* read the derived store "D" or throw.  The reading callback closes over  *)
(* the handle of "D".                                                      *)
(***************************************************************************)
NextListen ==
    \/ \E name \in PlainNames, initialState \in InitStates :
          CreateStore(name, initialState)
    \/ \E name \in PlainNames, updater \in Updaters, silent \in BOOLEAN :
          Set(name, updater, silent, MaxStack)
    \/ \E p \in ListenSubscriptions :
          (p[2] = "reader" => "D" \in handles) /\ Subscribe(p[1], p[2])
    \/ \E args \in ListenDeriveArgs :
          stores[args[1]] = 0 /\ Derive(args[1], args[2], args[3], MaxStack)

SpecListen == Init /\ [][NextListen]_vars

(***************************************************************************)
(* SpecDiamond: "D" computed from "A" named twice, from "A" and a derived  *)
(* "B" of "A", or from "B" alone, with listeners on "D".                   *)
(***************************************************************************)
DiamondDeriveArgs == {<<"B", <<"A">>, "copy">>, <<"D", <<"A", "A">>, "pair">>,
                      <<"D", <<"A", "B">>, "pair">>, <<"D", <<"B">>, "pair">>}
DiamondSubscriptions == {<<"D", "c1">>, <<"D", "c2">>}

NextDiamond ==
    \/ \E name \in PlainNames, initialState \in InitStates :
          CreateStore(name, initialState)
    \/ \E name \in Names, updater \in Updaters, silent \in BOOLEAN :
          Set(name, updater, silent, MaxStack)
    \/ \E p \in DiamondSubscriptions : Subscribe(p[1], p[2])
    \/ \E args \in DiamondDeriveArgs :
          stores[args[1]] = 0 /\ Derive(args[1], args[2], args[3], MaxStack)

SpecDiamond == Init /\ [][NextDiamond]_vars

(***************************************************************************)
(* SpecReenter: store "A" and its derived store "D", with recording        *)
(* listeners and the listener bump, which sets "A" from inside its         *)
(* notification.                                                           *)
(***************************************************************************)
ReenterSubscriptions == {<<"A", "c1">>, <<"A", "bump">>, <<"D", "c1">>, <<"D", "bump">>}

NextReenter ==
    \/ \E name \in PlainNames, initialState \in InitStates :
          CreateStore(name, initialState)
    \/ \E name \in PlainNames, updater \in Updaters :
          Set(name, updater, FALSE, MaxStack)
    \/ \E p \in ReenterSubscriptions : Subscribe(p[1], p[2])
    \/ \E args \in PlainDeriveArgs :
          stores["D"] = 0 /\ Derive("D", args[1], args[2], MaxStack)

SpecReenter == Init /\ [][NextReenter]_vars

(***************************************************************************)
(* Vocabulary of the properties.                                           *)
(***************************************************************************)
\* the current state of a registered store
StateNow(name) == heap[stores[name]]

Registered(name) == stores[name] # 0

Specs == Range(derivedStates)

AllDepsExist(d) == \A i \in 1..Len(d.deps) : Registered(d.deps[i])

\* what the spec's compute function returns on the current states of its deps
Computed(d) == Compute(d.fn, Inputs(World, d.deps)).val

\* t is recomputed by a set of s
DependsOn(t, s) == \E d \in Specs : d.name = t /\ Includes(d.deps, s)

\* names recomputed, directly or through other derived stores, by a set of s
RECURSIVE Downstream(_, _)
Downstream(from, n) ==
    IF n = 0 THEN from
    ELSE Downstream(from \cup {t \in Names : \E s \in from : DependsOn(t, s)}, n - 1)

Dependents(s) == Downstream({t \in Names : DependsOn(t, s)}, Cardinality(Names))

OnCycle(t) == t \in Dependents(t)

ReachesCycle(s) == OnCycle(s) \/ \E t \in Dependents(s) : OnCycle(t)

Acyclic == \A t \in Names : ~OnCycle(t)

\* log entries of set call number i of the last call, for callback cb
Hits(i, cb) == {j \in 1..Len(last.log) : last.log[j].call = i /\ last.log[j].cb = cb}

(***************************************************************************)
(* C1: after a set of a store named in the deps of a derived spec returns, *)
(* the derived store equals compute(current states of the deps).           *)
(***************************************************************************)
C1_DerivedEqualsCompute ==
    (last.op = "set" /\ last.outcome = "ok") =>
        \A d \in Specs :
            (Includes(d.deps, last.name) /\ AllDepsExist(d)) =>
                StateNow(d.name) = Computed(d)

(***************************************************************************)
(* C2: createStore under a name that is already registered returns the     *)
(* store's handle and leaves the store's state as it was.                  *)
(***************************************************************************)
C2_SameHandle ==
    [][(last'.op = "createStore" /\ stores[last'.name] # 0) =>
          /\ last'.ret.kind = "handle"
          /\ heap'[stores'[last'.name]] = heap[stores[last'.name]]]_vars

\* every set call made during the last operation, the nested ones included
NotifiedOncePerCall ==
    /\ \A i \in 1..Len(last.calls) :
          \A cb \in Callbacks :
              IF ~last.calls[i].silent /\ cb \in Range(last.calls[i].listeners)
              THEN /\ Cardinality(Hits(i, cb)) = 1
                   /\ \A j \in Hits(i, cb) :
                         /\ last.log[j].store = last.calls[i].store
                         /\ last.log[j].next = last.calls[i].next
                         /\ last.log[j].prev = last.calls[i].prev
              ELSE Hits(i, cb) = {}
    /\ \A j \in 1..Len(last.log) : last.log[j].call \in 1..Len(last.calls)

(***************************************************************************)
(* C3: a non-silent set call invokes every listener subscribed to the      *)
(* store when the call is made exactly once, with nextState the store's    *)
(* state after the call and prevState its state just before the call.      *)
(***************************************************************************)
C3_NotifiedOnce ==
    [][/\ NotifiedOncePerCall'
       /\ last'.op = "set" =>
             /\ last'.calls[1].store = last'.name
             /\ last'.calls[1].silent = last'.silent
             /\ last'.calls[1].listeners = listeners[last'.name]
             /\ last'.calls[1].prev = heap[stores[last'.name]]
             /\ last'.outcome = "ok" =>
                   last'.calls[1].next = heap'[stores'[last'.name]]]_vars

C3_Witness ==
    /\ last.op = "set" /\ ~last.silent /\ last.outcome = "ok"
    /\ Len(listeners[last.name]) = 2
    /\ Len(last.log) = 2
    /\ Len(last.calls) = 2
    /\ last.calls[1].prev # last.calls[1].next

(***************************************************************************)
(* C4: a silent set invokes none of the store's own listeners, still       *)
(* recomputes every derived spec whose deps contain the store's name, and  *)
(* the derived stores are written non-silently: their listeners are        *)
(* notified.                                                               *)
(***************************************************************************)
C4_SilentStillRecomputes ==
    (last.op = "set" /\ last.silent /\ last.outcome = "ok") =>
        /\ \A j \in 1..Len(last.log) : last.log[j].call # 1
        /\ \A d \in Specs :
              Includes(d.deps, last.name) =>
                  /\ \E j \in 1..Len(last.recomputed) :
                        last.recomputed[j] = [spec |-> d.name, by |-> 1]
                  /\ \E i \in 2..Len(last.calls) :
                        /\ last.calls[i].store = d.name
                        /\ ~last.calls[i].silent
                        /\ \A cb \in Range(listeners[d.name]) : Hits(i, cb) # {}

C4_Witness ==
    /\ last.op = "set" /\ last.silent /\ last.outcome = "ok"
    /\ listeners[last.name] # <<>>
    /\ \E d \in Specs : Includes(d.deps, last.name) /\ listeners[d.name] # <<>>
    /\ Len(last.log) = 1

\* no callback whose unsubscribe closure was called is in the log
NoneCancelledInvoked ==
    \A j \in 1..Len(last.log) : <<last.log[j].store, last.log[j].cb>> \notin cancelled

(***************************************************************************)
(* C6: once the unsubscribe closure of subscribe(c) on a store has been    *)
(* called, no set of that store invokes c; calling the closure again       *)
(* leaves the listener set as it is and raises nothing.                    *)
(***************************************************************************)
C6_Unsubscribed ==
    [][/\ NoneCancelledInvoked'
       /\ (last'.op = "unsubscribe" /\ <<last'.name, last'.arg.cb>> \in cancelled) =>
             /\ listeners' = listeners
             /\ last'.outcome = "ok"]_vars

C6_Witness ==
    /\ last.op = "set" /\ ~last.silent
    /\ \E cb \in Callbacks : <<last.name, cb>> \in cancelled
    /\ Len(last.log) > 0

\* compute functions whose result always has the keys a and b
FixedKeyFns == {"pair"}

(***************************************************************************)
(* C5: in an acyclic graph whose compute functions always return the same  *)
(* key set, when a caller's set of a store returns, every derived store    *)
(* that depends on it, directly or through derived stores, equals          *)
(* compute(current states of its deps).                                    *)
(***************************************************************************)
C5_TransitiveConsistent ==
    (/\ last.op = "set" /\ last.outcome = "ok"
     /\ Acyclic
     /\ \A d \in Specs : d.fn \in FixedKeyFns) =>
        \A d \in Specs :
            d.name \in Dependents(last.name) => StateNow(d.name) = Computed(d)

\* no compute function fails: every dep of every spec is registered
Healthy == \A d \in Specs : AllDepsExist(d) /\ d.store = "handle"

\* order lists the own keys of every object of the heap, each once
KeysWellFormed ==
    /\ Len(order) = Len(heap)
    /\ \A ref \in 1..Len(heap) :
          /\ Range(order[ref]) = DOMAIN heap[ref]
          /\ Len(order[ref]) = Cardinality(DOMAIN heap[ref])

\* The stack is deep enough for the inputs: when a call ends with the stack
\* full, the last set call on every store of the recursion wrote the value
\* the store already had, so a deeper stack ends in the same states.
StackDeepEnough ==
    last.outcome = "RangeError" =>
        /\ Len(last.calls) >= Cardinality(Names)
        /\ \A i \in (Len(last.calls) - Cardinality(Names) + 1)..Len(last.calls) :
              last.calls[i].next = last.calls[i].prev

(***************************************************************************)
(* C7: a dependency cycle is not detected: a set, or the initial           *)
(* recomputation of a derive, that triggers recomputation around a cycle   *)
(* recurses until the stack is exhausted and never returns, also when the  *)
(* recomputed values no longer change.                                     *)
(***************************************************************************)
C7_CycleOverflows ==
    (last.op \in {"set", "derive"} /\ ReachesCycle(last.name)) =>
        /\ last.outcome # "ok"
        /\ Healthy => last.outcome = "RangeError"

C7_Witness ==
    /\ last.op = "set" /\ Healthy /\ ReachesCycle(last.name)
    /\ last.outcome = "RangeError"
    /\ Len(last.calls) >= 3
    /\ \A i \in 2..Len(last.calls) : last.calls[i].next = last.calls[i].prev

\* what get() returned is a fresh object equal to the store's state
GetEqualsState ==
    last.op = "get" =>
        /\ last.ret.kind = "object"
        /\ last.ret.ref # stores[last.name]
        /\ heap[last.ret.ref] = StateNow(last.name)

(***************************************************************************)
(* C8: set(partial) overwrites the partial's top-level keys and leaves the *)
(* other keys of the previous state; set(fn) makes the state fn(previous   *)
(* state); set returns the new state and a following get() returns an      *)
(* equal value.                                                            *)
(***************************************************************************)
C8_SetResult ==
    [][/\ GetEqualsState'
       /\ (last'.op = "set" /\ last'.outcome = "ok") =>
             LET P == heap[stores[last'.name]]
                 N == heap'[stores'[last'.name]]
                 u == last'.arg
             IN  /\ u.kind = "obj" =>
                       /\ DOMAIN N = DOMAIN P \cup DOMAIN u.obj
                       /\ \A k \in DOMAIN u.obj : N[k] = u.obj[k]
                       /\ \A k \in DOMAIN P \ DOMAIN u.obj : N[k] = P[k]
                 /\ u.kind = "fn" => N = ApplyFn(u.fn, P)
                 /\ last'.ret.kind = "object"
                 /\ heap'[last'.ret.ref] = N]_vars

C8_Witness ==
    /\ last.op = "set" /\ last.outcome = "ok" /\ last.arg.kind = "obj"
    /\ last.calls[1].prev # last.calls[1].next
    /\ DOMAIN last.calls[1].prev \ DOMAIN last.arg.obj # {}

(***************************************************************************)
(* C9: when derive(name, deps, f) under a name not yet registered, with    *)
(* deps that all exist, returns, the store is registered, a handle is      *)
(* returned and the store already equals f(current states of deps, in      *)
(* list order).                                                            *)
(***************************************************************************)
C9_DeriveInitialValue ==
    (last.op = "derive" /\ last.outcome = "ok"
        /\ \A i \in 1..Len(last.arg.deps) : Registered(last.arg.deps[i])) =>
        /\ Registered(last.name)
        /\ last.ret.kind = "handle"
        /\ last.name \in handles
        /\ \E d \in Specs : d.name = last.name /\ d.deps = last.arg.deps /\ d.fn = last.arg.fn
        /\ StateNow(last.name) = Compute(last.arg.fn, Inputs(World, last.arg.deps)).val

C9_Witness ==
    /\ last.op = "derive" /\ last.outcome = "ok"
    /\ last.arg.deps = <<"A", "B">>
    /\ Registered("A") /\ Registered("B")
    /\ StateNow(last.name)["a"] # StateNow(last.name)["b"]

(***************************************************************************)
(* C10: changing, adding or removing top-level keys of a value returned by *)
(* get() changes no store's state, notifies no listener and recomputes no  *)
(* derived store.                                                          *)
(***************************************************************************)
C10_CopyIsolated ==
    [][(last'.op = "mutate" /\ last'.ret.from = "get") =>
          /\ \A n \in Names :
                /\ Registered(n) = Registered(n)'
                /\ Registered(n) => StateNow(n)' = StateNow(n)
          /\ listeners' = listeners
          /\ derivedStates' = derivedStates
          /\ last'.log = <<>> /\ last'.recomputed = <<>> /\ last'.calls = <<>>]_vars

C10_Witness ==
    /\ last.op = "mutate" /\ last.ret.from = "get"
    /\ heap[last.ret.ref] # StateNow(last.name)
    /\ listeners[last.name] # <<>>
    /\ \E d \in Specs : Includes(d.deps, last.name)

\* the render closures in the store's listener set; of those that write the
\* same slot of the same element, the one registered last writes last
RendersOf(ls) == {r \in Renders : r \in Range(ls)}

Target(r) == <<RenderTable[r].el, Slot(RenderTable[r].options)>>

WritesLast(ls, r) ==
    \E i \in 1..Len(ls) :
        /\ ls[i] = r
        /\ \A j \in (i + 1)..Len(ls) :
              ls[j] \in Renders => Target(ls[j]) # Target(r)

Shown(d, r) == d[Target(r)[1]][Target(r)[2]]

(***************************************************************************)
(* C11: when bind returns, each target shows the value computed from the   *)
(* store's state at bind time; when a later non-silent set of the store    *)
(* returns, each bound target shows the value computed from the store's    *)
(* new state; a silent set leaves every target showing what it showed.     *)
(***************************************************************************)
C11_BoundTargetShows ==
    [][/\ last'.op = "bind" =>
             \A i \in 1..Len(Select(last'.arg.selector)) :
                 dom'[Select(last'.arg.selector)[i]][Slot(last'.arg.options)]
                     = Value(last'.arg.options, heap[stores[last'.name]],
                             order[stores[last'.name]])
       /\ (last'.op = "set" /\ ~last'.silent /\ last'.outcome = "ok") =>
             \A r \in RendersOf(listeners[last'.name]) :
                 WritesLast(listeners[last'.name], r) =>
                     Shown(dom', r) = Value(RenderTable[r].options,
                                            heap'[stores'[last'.name]],
                                            order'[stores'[last'.name]])
       /\ (last'.op = "set" /\ last'.silent) => dom' = dom]_vars

C11_Witness ==
    /\ last.op = "set" /\ ~last.silent /\ last.outcome = "ok"
    /\ "r1" \in Range(listeners["A"]) /\ "r4" \notin Range(listeners["A"])
    /\ Len(SelectSeq(listeners["A"], LAMBDA cb : cb = "r3")) = 2
    /\ Transform("label", last.calls[1].prev) = "a=0"
    /\ dom["e1"]["textContent"] = "a=1"
    /\ dom["e2"][".value"] = "{\n  \"c\": 1,\n  \"a\": 1\n}"

\* compute of spec d throws on the current states of its deps
ComputeFails(d) == Compute(d.fn, Inputs(World, d.deps)).err # "ok"

(***************************************************************************)
(* C12: when the compute function of a spec fails in a recomputation that  *)
(* a set triggered, that set throws the same error to its caller: nothing  *)
(* runs after the failed recomputation and the call returns no value.      *)
(***************************************************************************)
C12_ComputeFailurePropagates ==
    last.op = "set" =>
        \A j \in 1..Len(last.recomputed) :
            LET d == SpecOf(derivedStates, last.recomputed[j].spec)
            IN  ComputeFails(d) =>
                    /\ last.outcome = Compute(d.fn, Inputs(World, d.deps)).err
                    /\ j = Len(last.recomputed)
                    /\ last.ret = NoRet

C12_Witness ==
    /\ last.op = "set" /\ last.outcome = "TypeError"
    /\ Len(last.recomputed) = 1 /\ Len(last.calls) = 1
    /\ \E d \in Specs :
          /\ d.name = last.recomputed[1].spec /\ d.store = "handle"
          /\ ~AllDepsExist(d) /\ ComputeFails(d)
    /\ \E d \in Specs : d.name = "B" /\ ~ComputeFails(d)

\* the value reached from v by the keys from the i-th on: a key that is not
\* there, or a value that is not an object, ends the walk with undefined
RECURSIVE Follow(_, _, _)
Follow(v, keys, i) ==
    IF i > Len(keys) THEN v
    ELSE IF v.t = "object" /\ keys[i] \in DOMAIN v.o THEN Follow(v.o[keys[i]], keys, i + 1)
    ELSE Undefined

(***************************************************************************)
(* C13: get(path) with a dot-separated path returns the value reached by   *)
(* following the keys from the current state, undefined when a key is      *)
(* missing or an intermediate value is absent; it raises nothing and       *)
(* leaves the registry as it is.                                           *)
(***************************************************************************)
C13_GetByPath ==
    [][(last'.op = "getPath" /\ Len(last'.arg.path) > 0) =>
          /\ last'.outcome = "ok"
          /\ last'.ret.kind = "value"
          /\ last'.ret.val = Follow(Obj(heap[stores[last'.name]]), Split(last'.arg.path), 1)
          /\ \A n \in Names :
                /\ Registered(n) = Registered(n)'
                /\ Registered(n) => StateNow(n)' = StateNow(n)
          /\ listeners' = listeners /\ derivedStates' = derivedStates
          /\ last'.calls = <<>> /\ last'.log = <<>> /\ last'.recomputed = <<>>]_vars

C13_Witness ==
    /\ last.op = "getPath" /\ last.outcome = "ok"
    /\ last.arg.path = <<"preferences", ".", "theme">>
    /\ last.ret.val = Str("light")

(***************************************************************************)
(* C14: derive under a name that is already registered, with deps that     *)
(* exist, returns a handle after registering the spec and recomputing, and *)
(* afterwards every set of a store in the deps of a registered spec        *)
(* returns and recomputes the spec.                                        *)
(***************************************************************************)
C14_RederiveSucceeds ==
    [][/\ (/\ last'.op = "derive" /\ stores[last'.name] # 0
           /\ \A i \in 1..Len(last'.arg.deps) : stores[last'.arg.deps[i]] # 0) =>
             /\ last'.outcome = "ok"
             /\ last'.ret.kind = "handle"
             /\ \E d \in Specs' : d.name = last'.name /\ d.deps = last'.arg.deps
                                   /\ d.fn = last'.arg.fn
             /\ heap'[stores'[last'.name]]
                    = Merge(heap[stores[last'.name]],
                            Compute(last'.arg.fn, Inputs(World, last'.arg.deps)).val)
       /\ (last'.op = "set" /\ \A d \in Specs : AllDepsExist(d)) =>
             /\ last'.outcome = "ok"
             /\ \A d \in Specs :
                   Includes(d.deps, last'.name) =>
                       \E j \in 1..Len(last'.recomputed) : last'.recomputed[j].spec = d.name]_vars

\* the last set call made on store t during the last operation (0: none)
LastCallOn(t) ==
    LET on == {i \in 1..Len(last.calls) : last.calls[i].store = t}
    IN  IF on = {} THEN 0 ELSE CHOOSE i \in on : \A j \in on : j <= i

(***************************************************************************)
(* C15: in a non-silent set of S the listeners of S run before any derived *)
(* spec is recomputed, so a listener of S that reads a derived store sees  *)
(* the value it had before the set; and when the set returns, every        *)
(* listener of S has been notified and every derived store depending on S, *)
(* directly or through other derived stores, has been recomputed and holds *)
(* the state its last recomputation wrote.                                 *)
(***************************************************************************)
C15_ListenersBeforeRecompute ==
    [][(last'.op = "set" /\ ~last'.silent) =>
          /\ \A j \in 1..Len(last'.log) :
                (last'.log[j].call = 1 /\ last'.log[j].cb = "reader") =>
                    last'.log[j].saw = heap[stores["D"]]
          /\ last'.outcome = "ok" =>
                /\ \A cb \in Range(listeners[last'.name]) :
                      \E j \in 1..Len(last'.log) :
                          last'.log[j].call = 1 /\ last'.log[j].cb = cb
                /\ \A t \in Dependents(last'.name) :
                      /\ \E j \in 1..Len(last'.recomputed) : last'.recomputed[j].spec = t
                      /\ LastCallOn(t)' # 0
                      /\ StateNow(t)' = last'.calls[LastCallOn(t)'].next]_vars

C15_Witness ==
    /\ last.op = "set" /\ ~last.silent /\ last.outcome = "ok"
    /\ \E d \in Specs : d.name = "D" /\ d.deps = <<"B">>
    /\ Len(last.recomputed) = 2
    /\ \E j \in 1..Len(last.log) :
          /\ last.log[j].cb = "reader"
          /\ last.log[j].saw # StateNow("D")
          /\ last.log[j].saw["a"] = last.log[j].prev["a"]
          /\ last.log[j].next["a"] = StateNow("D")["a"]

\* recomputations of spec t that set call number i of the last operation triggered
TriggeredBy(i, t) ==
    {j \in 1..Len(last.recomputed) : last.recomputed[j] = [spec |-> t, by |-> i]}

RecomputationsOf(t) == {j \in 1..Len(last.recomputed) : last.recomputed[j].spec = t}

NotificationsOf(t, cb) ==
    {j \in 1..Len(last.log) : last.log[j].store = t /\ last.log[j].cb = cb}

(***************************************************************************)
(* C16: every set call of an operation that returns, the caller's and the  *)
(* nested ones, triggers exactly one recomputation of each spec whose deps *)
(* contain the store's name, however often, and none of the other specs;   *)
(* so a spec that lists both A and a derived store of A is recomputed      *)
(* exactly twice in one set of A by the caller, and each of its listeners  *)
(* is notified once per recomputation.                                     *)
(***************************************************************************)
C16_OneRecomputationPerSet ==
    (last.op = "set" /\ last.outcome = "ok") =>
        /\ \A i \in 1..Len(last.calls) :
              \A d \in Specs :
                  Cardinality(TriggeredBy(i, d.name))
                      = IF last.calls[i].store \in Range(d.deps) THEN 1 ELSE 0
        /\ \A j \in 1..Len(last.recomputed) :
              last.recomputed[j].by \in 1..Len(last.calls)
        /\ \A d, b \in Specs :
              (/\ last.name \in Range(d.deps) /\ b.name \in Range(d.deps)
               /\ b.deps = <<last.name>>) =>
                  Cardinality(RecomputationsOf(d.name)) = 2
        /\ \A d \in Specs :
              d.name # last.name =>
                  \A cb \in Range(listeners[d.name]) :
                      Cardinality(NotificationsOf(d.name, cb))
                          = Cardinality(RecomputationsOf(d.name))

C16_Witness ==
    /\ last.op = "set" /\ last.name = "A" /\ last.outcome = "ok"
    /\ \E d \in Specs : d.name = "D" /\ d.deps = <<"A", "B">>
    /\ Cardinality(RecomputationsOf("D")) = 2
    /\ Len(listeners["D"]) = 2
    /\ Len(last.log) = 4
    /\ last.calls[1].prev # last.calls[1].next

(***************************************************************************)
(* C17: calling the unsubscribe closure that subscribe(c) has just         *)
(* returned leaves the listener set with exactly the members it had        *)
(* before that subscribe call, also when c was a member already.           *)
(***************************************************************************)
C17_UnsubscribeRestores ==
    [][(/\ last.op = "subscribe" /\ last'.op = "unsubscribe"
        /\ last'.name = last.name /\ last'.arg.cb = last.arg.cb) =>
           Range(listeners'[last.name]) = last.ret.before]_vars

(***************************************************************************)
(* C18: the content of a derived store is written by the recomputations of *)
(* its spec only: a set that the caller makes on the handle derive         *)
(* returned leaves the content as the last recomputation wrote it.         *)
(***************************************************************************)
C18_DerivedWrittenByComputeOnly ==
    [][(last'.op = "set" /\ \E d \in Specs : d.name = last'.name) =>
          heap'[stores'[last'.name]] = heap[stores[last'.name]]]_vars

\* the notifications of listener cb of store t during the last operation, in
\* the order they were made
Delivered(t, cb) ==
    SelectSeq(last.log, LAMBDA e : e.store = t /\ e.cb = cb)

\* The set calls are numbered in the order they were made, which is the
\* order in which the stores took their states (line 29).
InOrder(t, cb) ==
    LET d == Delivered(t, cb)
    IN  /\ \A j, k \in 1..Len(d) : j < k => d[j].call < d[k].call
        /\ d # <<>> => d[Len(d)].next = StateNow(t)

\* cb comes before every listener of t that sets a store during its notification
BeforeSetters(t, cb) ==
    \A i, j \in 1..Len(listeners[t]) :
        (listeners[t][i] = "bump" /\ listeners[t][j] = cb) => j < i

(***************************************************************************)
(* C19 as claimed: the nextState values delivered to a listener arrive in  *)
(* the order in which the store took them, and when the caller's set       *)
(* returns the last one delivered is the store's current state, also when  *)
(* another listener of the store sets it from inside its notification.     *)
(***************************************************************************)
C19_DeliveredInOrder ==
    (last.op = "set" /\ last.outcome = "ok") =>
        \A t \in Names : \A cb \in Callbacks : InOrder(t, cb)

(***************************************************************************)
(* C19, amended: the same for a listener that no re-entering listener      *)
(* precedes in the store's listener set.                                   *)
(***************************************************************************)
C19_DeliveredInOrderBeforeSetters ==
    (last.op = "set" /\ last.outcome = "ok") =>
        \A t \in Names : \A cb \in Callbacks :
            BeforeSetters(t, cb) => InOrder(t, cb)

C19_Witness ==
    /\ last.op = "set" /\ last.outcome = "ok"
    /\ listeners["A"] = <<"c1", "bump">>
    /\ Len(Delivered("A", "c1")) = 2
    /\ Delivered("A", "c1")[1].next # Delivered("A", "c1")[2].next
    /\ Len(Delivered("D", "c1")) = 2

\* position of the spec registered under key in Object.keys(derivedStates)
SpecIndex(key) == CHOOSE i \in 1..Len(derivedStates) : derivedStates[i].name = key

\* position of the first listener of store t that throws (0: none)
FirstThrower(t) ==
    LET at == {i \in 1..Len(listeners[t]) : listeners[t][i] = "boom"}
    IN  IF at = {} THEN 0 ELSE CHOOSE i \in at : \A j \in at : i <= j

(***************************************************************************)
(* C20: a set that a listener or a compute function makes fail rolls       *)
(* nothing back.  The store keeps the new state; the listeners before the  *)
(* failing one have been notified with it and those after it have not;    *)
(* the specs recomputed before the failure keep their new values; the      *)
(* failing spec and the specs after it in registration order are not       *)
(* recomputed and their stores stay as they were.                          *)
(***************************************************************************)
C20_NoRollback ==
    [][(last'.op = "set" /\ last'.outcome # "ok") =>
          LET S == last'.name
              P == heap[stores[S]]
              N == IF last'.arg.kind = "obj" THEN Merge(P, last'.arg.obj)
                   ELSE ApplyFn(last'.arg.fn, P)
              p == FirstThrower(S)
              cbs == [j \in 1..Len(last'.log) |-> last'.log[j].cb]
          IN  /\ heap'[stores'[S]] = N
              /\ \A j \in 1..Len(last'.log) :
                    last'.log[j].call = 1 /\ last'.log[j].next = N
              /\ IF ~last'.silent /\ p # 0
                 THEN /\ cbs = SubSeq(listeners[S], 1, p)
                      /\ last'.recomputed = <<>>
                      /\ \A n \in Names \ {S} :
                            Registered(n) => heap'[stores'[n]] = heap[stores[n]]
                 ELSE /\ cbs = IF last'.silent THEN <<>> ELSE listeners[S]
                      /\ last'.recomputed # <<>>
                      /\ LET k == SpecIndex(last'.recomputed[Len(last'.recomputed)].spec)
                         IN  \A i \in k..Len(derivedStates) :
                                 /\ i > k =>
                                       \A j \in 1..Len(last'.recomputed) :
                                           last'.recomputed[j].spec # derivedStates[i].name
                                 /\ heap'[stores'[derivedStates[i].name]]
                                        = heap[stores[derivedStates[i].name]]]_vars

C20_Witness ==
    /\ last.op = "set" /\ last.outcome = "Error" /\ ~last.silent
    /\ listeners["A"] # <<>> /\ FirstThrower("A") = 0
    /\ Len(last.log) = Len(listeners["A"])
    /\ Len(derivedStates) = 2
    /\ last.recomputed = <<[spec |-> derivedStates[1].name, by |-> 1]>>
    /\ Includes(derivedStates[2].deps, "A")
    /\ StateNow(derivedStates[2].name) # StateNow("A")

====
